---- MODULE Spec2Model ----
(***************************************************************************)
(* Model of src/src/lib.rs: the flag descriptor (mod flag) with its        *)
(* type-erased value slot and Debug rendering, and the diagnostic          *)
(* ErrNote (mod err_note) with its exit/panic/drop behaviour.              *)
(*                                                                         *)
(* Text is modelled as a sequence of one-character strings, so that        *)
(* rendering is real concatenation and "contains" is a real substring      *)
(* test.  A `dyn Any` is a record [type, val]: the concrete type the       *)
(* value was erased from, and its content.                                 *)
(***************************************************************************)
EXTENDS Integers, Sequences, FiniteSets, TLC

VARIABLES flag, given, replaced, last, notes, proc, stdout, payload, lastN

vars == <<flag, given, replaced, last, notes, proc, stdout, payload, lastN>>
flagVars == <<flag, given, replaced, last>>
noteVars == <<notes, proc, stdout, payload, lastN>>

\* ------------------------------------------------------------------ bounds
MaxArgs == 2      \* longest args slice a descriptor is constructed with
MaxNotes == 2     \* ErrNotes created in one run

\* ------------------------------------------------------------ Option / Result
None == [some |-> FALSE]
Some(x) == [some |-> TRUE, v |-> x]
is_none(o) == ~o.some

Ok == [ok |-> TRUE]
Err(e) == [ok |-> FALSE, err |-> e]

\* -------------------------------------------------------------------- text
Contains(s, sub) ==
    \E i \in 0..(Len(s) - Len(sub)) : SubSeq(s, i + 1, i + Len(sub)) = sub

EndsWith(s, suf) ==
    /\ Len(s) >= Len(suf)
    /\ SubSeq(s, Len(s) - Len(suf) + 1, Len(s)) = suf

Digits == <<"0", "1", "2", "3", "4", "5", "6", "7", "8", "9">>

RECURSIVE fmt_u(_)
\* decimal digits of a natural number, as core::fmt prints an integer
fmt_u(n) == IF n < 10 THEN <<Digits[n + 1]>>
            ELSE fmt_u(n \div 10) \o <<Digits[(n % 10) + 1]>>

\* Display for i32
fmt_i32(n) == IF n < 0 THEN <<"-">> \o fmt_u(-n) ELSE fmt_u(n)

\* Display for bool
fmt_bool(b) == IF b THEN <<"t", "r", "u", "e">> ELSE <<"f", "a", "l", "s", "e">>

\* Display for f32.  An f32 is modelled by its number of halves h (the value
\* h/2, exactly representable); Display prints the shortest decimal that
\* reads back, with no fraction for an integral value.
fmt_f32(h) ==
    LET a == IF h < 0 THEN -h ELSE h
        sign == IF h < 0 THEN <<"-">> ELSE <<>>
    IN  sign \o fmt_u(a \div 2) \o (IF a % 2 = 1 THEN <<".", "5">> ELSE <<>>)

\* Display for str
fmt_str(s) == s

\* ------------------------------------------------------------- dyn Any
\* a value behind `dyn Any`: its concrete type and its content
dyn(T, v) == [type |-> T, val |-> v]

\* `Box::new(v) as Box<dyn Any>` for a v of static type T
BoxNew(T, v) == dyn(T, v)

\* <dyn Any>::downcast_ref::<T>()
downcast_ref(any, T) == IF any.type = T THEN Some(any.val) ELSE None

\* ------------------------------------------------------------ mod flag
\* enum FlagError
FlagError == {"NoValue", "InvalidFlag", "MissingArgument"}

\* the types the rules of match_value! in Flag's Debug impl name, in order
RuleTypes == <<"&str", "&bool", "&i32", "&f32">>

\* `write!(f, "{}", v)` for a v: &T, T one of the rule types (Display sees
\* through the references)
Display(T, v) ==
    CASE T = "&str" -> fmt_str(v)
      [] T = "&bool" -> fmt_bool(v)
      [] T = "&i32" -> fmt_i32(v)
      [] T = "&f32" -> fmt_f32(v)

\* the character U+0060 (a TLA+ string cannot hold it)
Backtick == "U+0060"

DefaultOpen == <<" ", "|", " ", "D", "e", "f", "a", "u", "l", "t", ":", " ", Backtick>>
DefaultClose == <<Backtick>>
DefaultUnknown == <<" ", "|", " ", "D", "e", "f", "a", "u", "l", "t", ":", " ",
                    "[", "u", "n", "k", "n", "o", "w", "n", " ",
                    "t", "y", "p", "e", "]">>

RECURSIVE match_rules(_, _, _)
\* the if-let / else chain of match_value!, from rule i on
match_rules(value, f, i) ==
    IF i > Len(RuleTypes) THEN f \o DefaultUnknown
    ELSE LET d == downcast_ref(value, RuleTypes[i])
         IN  IF d.some THEN f \o DefaultOpen \o Display(RuleTypes[i], d.v) \o DefaultClose
             ELSE match_rules(value, f, i + 1)

\* mutant of match_value: a value no rule matches gets no clause at all
match_value_silent(value, f) ==
    IF \E i \in DOMAIN RuleTypes : downcast_ref(value, RuleTypes[i]).some
    THEN match_rules(value, f, 1)
    ELSE f

\* macro match_value!: what it appends to the formatter's output f
match_value(value, f) == match_rules(value, f, 1)

RECURSIVE fmt_args_join(_)
\* mutant of fmt_args: the spellings joined by spaces, none after the last
fmt_args_join(args) ==
    IF args = <<>> THEN <<>>
    ELSE IF Len(args) = 1 THEN Head(args)
    ELSE Head(args) \o <<" ">> \o fmt_args_join(Tail(args))

RECURSIVE fmt_args(_)
\* for arg in self.args { write!(f, "{} ", arg)?; }
fmt_args(args) ==
    IF args = <<>> THEN <<>>
    ELSE Head(args) \o <<" ">> \o fmt_args(Tail(args))

\* impl Debug for Flag: the text written (the sink, a String behind format!,
\* never fails, so every `?` passes and the result is Ok(()))
Flag_fmt(self) ==
    LET f1 == self.name \o <<"\n", "\t">>
        f2 == f1 \o fmt_args(self.args)
        f3 == f2 \o <<"|", " ">> \o self.desc
        f4 == IF self.notes.some THEN f3 \o <<" ", "|", " ">> \o self.notes.v ELSE f3
        f5 == IF self.value.some THEN match_value(self.value.v, f4) ELSE f4
    IN  [res |-> Ok, out |-> f5]

\* Flag::new
Flag_new(name, args, desc, nts, value) ==
    [name |-> name, args |-> args, desc |-> desc, notes |-> nts, value |-> value]

\* Flag::get_name
Flag_get_name(self) == self.name

\* Flag::get_args
Flag_get_args(self) == self.args

\* mutant of Flag_get_value: the view is of the box, not of what it holds
Flag_get_value_boxed(self) ==
    IF self.value.some THEN Some(dyn("Box<dyn Any>", self.value.v)) ELSE None

\* Flag::get_value: self.value.as_ref()
Flag_get_value(self) == self.value

\* mutant of Flag_set_value: no check, a value is established where none was
Flag_set_value_establish(self, value) ==
    [self |-> [self EXCEPT !.value = Some(BoxNew("&dyn Any", value))], ret |-> Ok]

\* mutant of Flag_set_value: the assignment comes before the check
Flag_set_value_early(self, value) ==
    [self |-> [self EXCEPT !.value = Some(BoxNew("&dyn Any", value))],
     ret |-> IF is_none(self.value) THEN Err("NoValue") ELSE Ok]

\* mutant of Flag_set_value: a typed slot, the new value must have the
\* stored value's concrete type
Flag_set_value_typed(self, value) ==
    IF is_none(self.value) \/ self.value.v.type # "&dyn Any"
    THEN [self |-> self, ret |-> Err("NoValue")]
    ELSE [self |-> [self EXCEPT !.value = Some(BoxNew("&dyn Any", value))],
          ret |-> Ok]

\* Flag::set_value: the descriptor afterwards and the Result returned.
\* `value` is the `&'static dyn Any` argument, modelled by its referent;
\* Box::new(value) boxes the reference itself, whose static type is
\* `&'static dyn Any`.
Flag_set_value(self, value) ==
    IF is_none(self.value)
    THEN [self |-> self, ret |-> Err("NoValue")]
    ELSE [self |-> [self EXCEPT !.value = Some(BoxNew("&dyn Any", value))],
          ret |-> Ok]

to_ascii_lowercase(c) == IF c = "V" THEN "v" ELSE c

\* mutant of str_eq: str::eq_ignore_ascii_case
str_eq_ignore_case(a, b) ==
    /\ Len(a) = Len(b)
    /\ \A i \in 1..Len(a) : to_ascii_lowercase(a[i]) = to_ascii_lowercase(b[i])

\* <str as PartialEq>::eq: same length, same bytes
str_eq(a, b) == /\ Len(a) = Len(b)
                /\ \A i \in 1..Len(a) : a[i] = b[i]

RECURSIVE slice_contains(_, _)
\* <[&str]>::contains: the first-to-last scan of the slice
slice_contains(xs, x) ==
    IF xs = <<>> THEN FALSE
    ELSE IF str_eq(Head(xs), x) THEN TRUE
    ELSE slice_contains(Tail(xs), x)

\* Flag::is_in
Flag_is_in(self, s) == slice_contains(self.args, s)

\* --------------------------------------------------------- mod err_note
\* impl Debug for ErrType (debug_match!)
ErrType_fmt(t) ==
    CASE t = "Exit" -> <<"E", "X", "I", "T">>
      [] t = "Assertion" -> <<"A", "S", "S", "E", "R", "T", "I", "O", "N">>
      [] OTHER -> <<"U", "n", "k", "n", "o", "w", "n", " ", "v", "a", "l", "u", "e">>

\* impl Debug for ErrNote: "[{:?} ERROR]: {}"
ErrNote_fmt(self) ==
    <<"[">> \o ErrType_fmt(self.type_)
            \o <<" ", "E", "R", "R", "O", "R", "]", ":", " ">> \o self.err_note

\* ErrNote::new (live: the note has not been dropped yet)
ErrNote_new(err_note, type_, exit) ==
    [err_note |-> err_note, type_ |-> type_, exit |-> exit, live |-> TRUE]

\* println!("{:?}", self): the formatted note and a newline on stdout
println(out, self) == out \o ErrNote_fmt(self) \o <<"\n">>

\* ------------------------------------------------------------- inputs
Names == { <<"o", "u", "t">>, <<"v">> }
ArgPool == { <<"-", "v">>, <<"-", "V">>, <<"-", "-", "v">> }
ArgSlices == UNION { [1..n -> ArgPool] : n \in 0..MaxArgs }
Descs == { <<"f", "i", "l", "e">> }
NotesOpts == { None, Some(<<"d", "e", "v">>) }
Queries == ArgPool \cup { <<"-">> }

\* values an owner boxes at construction: the primitives the tests box
\* ("output.txt", true, 42), references to primitives, and a type no rule
\* names.  An f32 is given in halves: 3 is 1.5, 4 is 2.0.
AnyVals ==
    { dyn("&str", <<"a", ".", "t">>),
      dyn("bool", TRUE), dyn("bool", FALSE),
      dyn("i32", 42), dyn("i32", -7),
      dyn("f32", 3), dyn("f32", 4),
      dyn("&bool", TRUE), dyn("&i32", -7), dyn("&f32", 3),
      dyn("u8", 7) }
ValueOpts == { None } \cup { Some(BoxNew(a.type, a.val)) : a \in AnyVals }

\* referents of the `&'static dyn Any` handed to set_value
SetVals ==
    { dyn("&str", <<"z">>), dyn("bool", FALSE), dyn("i32", 42),
      dyn("f32", 3), dyn("&i32", -7), dyn("u8", 7) }

Msgs == { <<"b", "a", "d">>, <<>> }
ErrTypes == { "Exit", "Assertion" }

\* ------------------------------------------------------- state machine
\* `last` is the latest call on the descriptor: the method, its argument
\* and what it returned, each in a record of its own shape.
NoOp == [op |-> "new", arg |-> None, ret |-> None]

\* the descriptor right after Flag::new, for every constructor input
InitFlag ==
    \E name \in Names, args \in ArgSlices, desc \in Descs,
       nts \in NotesOpts, value \in ValueOpts :
        /\ given = [name |-> name, args |-> args, desc |-> desc,
                    notes |-> nts, value |-> value]
        /\ flag = Flag_new(name, args, desc, nts, value)
        /\ replaced = FALSE
        /\ last = NoOp

\* no ErrNote exists, the process runs, nothing was printed
InitNote ==
    /\ notes = <<>>
    /\ proc = "running"
    /\ stdout = <<>>
    /\ payload = None
    /\ lastN = [op |-> "none", id |-> 0]

Init == InitFlag /\ InitNote

GetName ==
    /\ last' = [op |-> "get_name", arg |-> None, ret |-> [str |-> Flag_get_name(flag)]]
    /\ UNCHANGED <<flag, given, replaced, noteVars>>

GetArgs ==
    /\ last' = [op |-> "get_args", arg |-> None, ret |-> [slice |-> Flag_get_args(flag)]]
    /\ UNCHANGED <<flag, given, replaced, noteVars>>

GetValue ==
    /\ last' = [op |-> "get_value", arg |-> None, ret |-> Flag_get_value(flag)]
    /\ UNCHANGED <<flag, given, replaced, noteVars>>

SetValue ==
    \E value \in SetVals :
        LET r == Flag_set_value(flag, value)
        IN  /\ flag' = r.self
            /\ last' = [op |-> "set_value", arg |-> value, ret |-> r.ret]
            /\ replaced' = (replaced \/ r.ret.ok)
            /\ UNCHANGED <<given, noteVars>>

IsIn ==
    \E s \in Queries :
        /\ last' = [op |-> "is_in", arg |-> [s |-> s], ret |-> [bool |-> Flag_is_in(flag, s)]]
        /\ UNCHANGED <<flag, given, replaced, noteVars>>

\* format!("{:?}", flag)
Fmt ==
    /\ last' = [op |-> "fmt", arg |-> None, ret |-> Flag_fmt(flag)]
    /\ UNCHANGED <<flag, given, replaced, noteVars>>

Next == GetName \/ GetArgs \/ GetValue \/ SetValue \/ IsIn \/ Fmt

Spec == Init /\ [][Next]_vars

\* ErrNote::new
NoteNew ==
    \E err_note \in Msgs, type_ \in ErrTypes, exit \in BOOLEAN :
        /\ proc = "running"
        /\ Len(notes) < MaxNotes
        /\ notes' = Append(notes, ErrNote_new(err_note, type_, exit))
        /\ lastN' = [op |-> "new", id |-> Len(notes) + 1]
        /\ UNCHANGED <<proc, stdout, payload, flagVars>>

\* ErrNote::exit: print and process::exit(1) if the flag is set (no
\* destructor runs after process::exit), nothing otherwise
NoteExit ==
    \E i \in DOMAIN notes :
        /\ proc = "running"
        /\ notes[i].live
        /\ lastN' = [op |-> "exit", id |-> i]
        /\ IF notes[i].exit
           THEN /\ stdout' = println(stdout, notes[i])
                /\ proc' = "exited"
           ELSE UNCHANGED <<stdout, proc>>
        /\ UNCHANGED <<notes, payload, flagVars>>

\* ErrNote::panic: panic!("{:?}", self) starts unwinding with the formatted
\* note as payload
NotePanic ==
    \E i \in DOMAIN notes :
        /\ proc = "running"
        /\ notes[i].live
        /\ payload' = Some(ErrNote_fmt(notes[i]))
        /\ proc' = "panicking"
        /\ lastN' = [op |-> "panic", id |-> i]
        /\ UNCHANGED <<notes, stdout, flagVars>>

\* mutant of NoteDrop: dropping a note whose flag is set ends the process
NoteDrop_exits ==
    \E i \in DOMAIN notes :
        /\ proc \in {"running", "panicking"}
        /\ notes[i].live
        /\ stdout' = println(stdout, notes[i])
        /\ notes' = [notes EXCEPT ![i].live = FALSE]
        /\ proc' = IF notes[i].exit THEN "exited" ELSE proc
        /\ lastN' = [op |-> "drop", id |-> i]
        /\ UNCHANGED <<payload, flagVars>>

\* impl Drop for ErrNote, at the end of the owner's scope or while the
\* owner's frame is unwound by a panic
NoteDrop ==
    \E i \in DOMAIN notes :
        /\ proc \in {"running", "panicking"}
        /\ notes[i].live
        /\ stdout' = println(stdout, notes[i])
        /\ notes' = [notes EXCEPT ![i].live = FALSE]
        /\ lastN' = [op |-> "drop", id |-> i]
        /\ UNCHANGED <<proc, payload, flagVars>>

\* the runs that are about ErrNote alone: one descriptor, nobody calls it
InitErrNote ==
    /\ notes = <<>>
    /\ proc = "running"
    /\ stdout = <<>>
    /\ payload = None
    /\ lastN = [op |-> "none", id |-> 0]
    /\ given = [name |-> <<"v">>, args |-> <<>>, desc |-> <<"f", "i", "l", "e">>,
                notes |-> None, value |-> None]
    /\ flag = Flag_new(given.name, given.args, given.desc, given.notes, given.value)
    /\ replaced = FALSE
    /\ last = NoOp

NextNote == NoteNew \/ NoteExit \/ NotePanic \/ NoteDrop

SpecNote == InitErrNote /\ [][NextNote]_vars

\* ------------------------------------------------------------- claims
\* the supported set as the specification names it: text, boolean, 32-bit
\* integer, 32-bit float (the types of "output.txt", true, 42, 1.5f32)
SupportedTypes == {"&str", "bool", "i32", "f32"}

\* the natural textual form of a supported value
Natural(a) ==
    CASE a.type = "&str" -> a.val
      [] a.type = "bool" -> fmt_bool(a.val)
      [] a.type = "i32" -> fmt_i32(a.val)
      [] a.type = "f32" -> fmt_f32(a.val)

DefaultOf(a) == DefaultOpen \o Natural(a) \o DefaultClose

\* C1: a present value of a supported type (text, boolean, i32, f32) is
\* rendered with the clause " | Default: `<v>`", never as "[unknown type]".
C1_SupportedValueRendered ==
    (last.op = "fmt" /\ flag.value.some /\ flag.value.v.type \in SupportedTypes)
        => /\ Contains(last.ret.out, DefaultOf(flag.value.v))
           /\ ~Contains(last.ret.out, DefaultUnknown)

\* C2: after a successful set_value(new_value) the current value is
\* new_value itself: get_value downcast to new_value's type yields it, and a
\* supported new_value is rendered as " | Default: `<new_value>`".
C2_SetValueStoresNewValue ==
    (last.op = "set_value" /\ last.ret.ok)
        => /\ Flag_get_value(flag).some
           /\ downcast_ref(Flag_get_value(flag).v, last.arg.type) = Some(last.arg.val)
           /\ (last.arg.type \in SupportedTypes
                 => EndsWith(Flag_fmt(flag).out, DefaultOf(last.arg)))

\* C3: set_value on a descriptor whose value is absent returns
\* Err(NoValue) and leaves the descriptor as it was; a descriptor
\* constructed without a value never gets one.
C3_SetValueOnAbsent ==
    [][ /\ (last'.op = "set_value" /\ is_none(flag.value))
            => (last'.ret = Err("NoValue") /\ flag' = flag)
        /\ (is_none(given.value) => is_none(flag'.value)) ]_vars

C3_Witness ==
    /\ last.op = "set_value"
    /\ last.ret = Err("NoValue")
    /\ is_none(flag.value)
    /\ last.arg.type = "i32"

RECURSIVE ArgsText(_, _)
\* the first n elements of args, each followed by one space
ArgsText(args, n) ==
    IF n = 0 THEN <<>> ELSE ArgsText(args, n - 1) \o args[n] \o <<" ">>

DefaultLabel == <<" ", "|", " ", "D", "e", "f", "a", "u", "l", "t", ":", " ">>

\* C4: the rendering is exactly name, newline, tab, every arg in stored
\* order with one space after each, "| " and desc, " | " and notes iff
\* notes is present, then a default clause iff a value is present.
C4_RenderingShape ==
    last.op = "fmt" =>
        LET out == last.ret.out
            head == flag.name \o <<"\n", "\t">>
                      \o ArgsText(flag.args, Len(flag.args))
                      \o <<"|", " ">> \o flag.desc
                      \o (IF flag.notes.some
                          THEN <<" ", "|", " ">> \o flag.notes.v ELSE <<>>)
            rest == SubSeq(out, Len(head) + 1, Len(out))
        IN  /\ last.ret.res = Ok
            /\ Len(out) >= Len(head)
            /\ SubSeq(out, 1, Len(head)) = head
            /\ (is_none(flag.value) <=> rest = <<>>)
            /\ (flag.value.some =>
                  /\ Len(rest) > Len(DefaultLabel)
                  /\ SubSeq(rest, 1, Len(DefaultLabel)) = DefaultLabel
                  /\ \/ rest = DefaultUnknown
                     \/ /\ rest[Len(DefaultLabel) + 1] = Backtick
                        /\ rest[Len(rest)] = Backtick
                        /\ Len(rest) >= Len(DefaultLabel) + 2)

C4_Witness ==
    /\ last.op = "fmt"
    /\ Len(flag.args) = 2
    /\ flag.args[1] # flag.args[2]
    /\ flag.notes.some
    /\ flag.value.some

\* C5: a descriptor without a value renders with no "Default:" clause; one
\* whose value has a type no rule names renders successfully and ends
\* with " | Default: [unknown type]".
C5_AbsentVersusUnknown ==
    last.op = "fmt" =>
        /\ last.ret.res = Ok
        /\ is_none(flag.value)
             => ~Contains(last.ret.out, <<"D", "e", "f", "a", "u", "l", "t", ":">>)
        /\ (flag.value.some
              /\ flag.value.v.type \notin {"&str", "&bool", "&i32", "&f32"})
             => EndsWith(last.ret.out, DefaultUnknown)

C5_Witness ==
    /\ last.op = "fmt"
    /\ flag.value.some
    /\ flag.value.v.type = "u8"
    /\ flag.notes.some

\* C6: with no set_value in between, get_value gives back the value the
\* descriptor was constructed with: its downcast to the constructed type
\* yields the constructed content, and absent stays absent.
C6_ConstructGetRoundTrip ==
    (last.op = "get_value" /\ ~replaced) =>
        /\ is_none(given.value) => last.ret = None
        /\ \A a \in AnyVals :
              given.value = Some(BoxNew(a.type, a.val))
                 => /\ last.ret.some
                    /\ downcast_ref(last.ret.v, a.type) = Some(a.val)

C6_Witness ==
    /\ last.op = "get_value"
    /\ ~replaced
    /\ given.value = Some(BoxNew("bool", TRUE))

\* C7: is_in(s) is true iff s equals some element of args, and it leaves
\* the descriptor alone.
C7_IsInExact ==
    [][ last'.op = "is_in" =>
          /\ last'.ret.bool
                <=> (\E i \in DOMAIN flag.args : flag.args[i] = last'.arg.s)
          /\ (flag.args = <<>> => last'.ret.bool = FALSE)
          /\ flag' = flag ]_vars

C7_Witness ==
    /\ last.op = "is_in"
    /\ last.ret.bool = TRUE
    /\ Len(flag.args) = 2
    /\ flag.args[2] = last.arg.s
    /\ flag.args[1] # last.arg.s

\* C8: name, args, desc and notes always equal what construction was
\* given; the value changes only in a set_value that returns Ok.
C8_Frame ==
    [][ /\ flag'.name = given.name
        /\ flag'.args = given.args
        /\ flag'.desc = given.desc
        /\ flag'.notes = given.notes
        /\ given' = given
        /\ (flag'.value # flag.value
              => (last'.op = "set_value" /\ last'.ret = Ok)) ]_vars

C8_Witness ==
    /\ replaced
    /\ last.op = "is_in"
    /\ flag.value # given.value

\* the message of a note, spelled out
NoteMessage(n) ==
    <<"[">> \o (IF n.type_ = "Exit" THEN <<"E", "X", "I", "T">>
                ELSE <<"A", "S", "S", "E", "R", "T", "I", "O", "N">>)
            \o <<" ", "E", "R", "R", "O", "R", "]", ":", " ">> \o n.err_note

\* C9: the process leaves "running" only in exit() on a note whose flag
\* is set or in panic(); a drop prints the note's message and terminates
\* nothing; exit() on a note whose flag is unset prints nothing and
\* terminates nothing.
C9_TerminationOnlyExplicit ==
    [][ /\ (proc' # proc =>
              \/ /\ lastN'.op = "exit"
                 /\ notes[lastN'.id].exit
                 /\ proc' = "exited"
              \/ /\ lastN'.op = "panic"
                 /\ proc' = "panicking")
        /\ \A i \in DOMAIN notes :
              (notes[i].live /\ ~notes'[i].live)
                 => /\ proc' = proc
                    /\ stdout' = stdout \o NoteMessage(notes[i]) \o <<"\n">>
        /\ (lastN'.op = "exit" /\ ~notes[lastN'.id].exit)
              => (stdout' = stdout /\ proc' = proc) ]_vars

C9_Witness ==
    /\ lastN.op = "drop"
    /\ notes[lastN.id].exit
    /\ notes[lastN.id].type_ = "Exit"
    /\ proc = "running"

\* C10: the value is present iff it was present at construction, and a
\* set_value returns Ok iff the value is present when it is called,
\* whatever the old and the new value are.
C10_PresenceInvariant ==
    [][ /\ (flag'.value.some <=> given.value.some)
        /\ (flag'.value.some <=> flag.value.some)
        /\ (last'.op = "set_value" => (last'.ret.ok <=> flag.value.some)) ]_vars

C10_Witness ==
    /\ last.op = "set_value"
    /\ last.ret.ok
    /\ given.value.some
    /\ given.value.v.type = "bool"
    /\ last.arg.type = "i32"

====
